---------------------------- MODULE Spec2Model ----------------------------
(***************************************************************************)
(* A model of the AABB test-data tool chain: the binary box codec          *)
(* (aabb_io.py), the brute-force ground-truth oracle (ground_truth.py),    *)
(* the pair-set judge (judge.py) and the distribution generator (gen.py).  *)
(*                                                                         *)
(* Each program is a batch process; its position is a pc variable and each *)
(* action is one step of its main().  A float32 that holds a non-negative  *)
(* integer is modelled by that integer and is encoded to / decoded from    *)
(* its IEEE-754 bit pattern byte by byte, as struct.pack / struct.unpack   *)
(* do.  The model is of an interpreter in which the modules load.          *)
(***************************************************************************)
EXTENDS Integers, Sequences, FiniteSets, Bags, TLC

VARIABLES
    \* ---- the dataset file on disk and the oracle process (ground_truth.py)
    file,       \* the dataset file args.inp: File(bytes) or NoFile
    force,      \* args.force
    opc,        \* position of ground_truth.main
    ds,         \* what read_soa_arrays returned: err, n, world_w, world_h (the
                \* four lists, which main never changes, are read off the file)
    est,        \* est_checks
    oi, oj,     \* loop indices i, j of brute_force_pairs
    pairs,      \* the list `pairs` being built
    tests,      \* number of calls of intersects made so far
    outcsv,     \* the pair list args.out: File(lines) or NoFile
    oexit,      \* exit status of the oracle process
    \* ---- the judge process (judge.py)
    expFile,    \* testcase/<testcase>.csv: File(lines) or NoFile
    actFile,    \* out/<testcase>.csv: File(lines) or NoFile
    jpc,        \* position of judge.main
    jreads,     \* the files read_pairs has opened so far, in order
    exp, act,   \* the Counters read_pairs returned
    jout,       \* what main printed
    jexit,      \* exit status of the judge process
    \* ---- a caller of the codec (aabb_io.py)
    cpc,        \* position of the caller
    cin,        \* the dataset it passes to write_soa_bin: boxes, width, height
    cfile,      \* the file at `path`
    cwrite,     \* how write_soa_bin ended: "none" yet, "returned", or the exception
    crd,        \* what read_soa_arrays returned, or the exception it raised
    \* ---- the generator process (gen.py)
    args,       \* the parsed arguments
    gpc,        \* position of gen.main
    gerr,       \* the ValueError main raised, or "none"
    centers,    \* gen_clustered: the cluster centers
    gr, gc,     \* gen_grid, gen_packed: the loop variables r and c
    idx,        \* gen_grid, gen_packed: idx
    gboxes,     \* the list `boxes` of the generator
    gout        \* the file args.out + ".in"

oracleVars == <<file, force, opc, ds, est, oi, oj, pairs, tests, outcsv, oexit>>
judgeVars == <<expFile, actFile, jpc, jreads, exp, act, jout, jexit>>

codecVars == <<cpc, cin, cfile, cwrite, crd>>

genVars == <<args, gpc, gerr, centers, gr, gc, idx, gboxes, gout>>

vars == <<oracleVars, judgeVars, codecVars, genVars>>

\* what each program leaves alone: the state of the others
notOracle == <<judgeVars, codecVars, genVars>>
notJudge == <<oracleVars, codecVars, genVars>>
notCodec == <<oracleVars, judgeVars, genVars>>
notGen == <<oracleVars, judgeVars, codecVars>>

\* A file of the file system: missing, or holding data.  The data of a pair
\* list is its sequence of lines.  The data of a dataset file is a sequence of
\* runs, each a byte string and the number of times it is repeated, so that a
\* file of 20,000 boxes has a short description; a file written byte by byte
\* is the single run Bytes(b).
NoFile == [exists |-> FALSE, data |-> <<>>]
File(d) == [exists |-> TRUE, data |-> d]
Bytes(b) == <<[unit |-> b, rep |-> 1]>>

\* nothing read yet
NoData == [err |-> "unread"]

\* the exit status of a process: none while it runs, then <<status>>
Running == <<>>
Exited(status) == <<status>>

-----------------------------------------------------------------------------
(* Bounds of the model *)

\* largest number of boxes of an exhaustively enumerated dataset
MaxN == 3
\* pairwise tests explored of a dataset too large to run to completion
MaxBigTests == 2
\* largest number of lines of a pair list
MaxLines == 2
\* largest number of boxes of a dataset given to the codec
MaxCodecN == 2
MaxGenN == 2
MaxClusteredN == 1
MaxGridN == 3

\* ground_truth.main: max_checks
max_checks == 200000000

\* The largest N whose estimate N*(N-1)/2 does not exceed max_checks; the large
\* datasets of the model have BigN and BigN + 1 boxes.
BigN == CHOOSE k \in 19990..20010 :
            /\ (k * (k - 1)) \div 2 <= max_checks
            /\ ((k + 1) * k) \div 2 > max_checks

-----------------------------------------------------------------------------
(* Bytes, little-endian words and float32 *)

Pow2(k) == 2 ^ k

\* struct.pack("<I", v): four bytes, least significant first
LE32(v) == << v % 256, (v \div 256) % 256, (v \div 65536) % 256, (v \div 16777216) % 256 >>

\* the number of bytes of file data d
RECURSIVE FLen(_)
FLen(d) == IF d = <<>> THEN 0 ELSE Len(Head(d).unit) * Head(d).rep + FLen(Tail(d))

\* byte k (from 1) of file data d
RECURSIVE FByte(_, _)
FByte(d, k) ==
    LET u == Head(d).unit
        l == Len(u) * Head(d).rep
    IN  IF k <= l THEN u[((k - 1) % Len(u)) + 1] ELSE FByte(Tail(d), k - l)

\* f.read(cnt) with the file position at pos: the bytes there, cnt at most
FRead(d, pos, cnt) ==
    LET got == IF FLen(d) - pos < cnt THEN FLen(d) - pos ELSE cnt
    IN  [k \in 1..got |-> FByte(d, pos + k)]

\* struct.unpack("<I", ...) of the four bytes of file data d that follow offset off
U32At(d, off) ==
    FByte(d, off + 1) + 256 * FByte(d, off + 2) + 65536 * FByte(d, off + 3)
      + 16777216 * FByte(d, off + 4)

RECURSIVE FloorLog2(_)
FloorLog2(v) == IF v <= 1 THEN 0 ELSE 1 + FloorLog2(v \div 2)

\* The IEEE-754 binary32 bit pattern of the non-negative integer v < 2^24:
\* sign 0, biased exponent e + 127, the 23 mantissa bits below the leading one.
F32Bits(v) ==
    IF v = 0 THEN 0
    ELSE LET e == FloorLog2(v)
         IN  (e + 127) * Pow2(23) + (v - Pow2(e)) * Pow2(23 - e)

\* The value of a binary32 bit pattern that holds a non-negative integer.
F32Val(b) ==
    IF b = 0 THEN 0
    ELSE LET e == (b \div Pow2(23)) - 127
             m == Pow2(23) + (b % Pow2(23))
         IN  m \div Pow2(23 - e)

\* struct.pack("<f", v)
PackF32(v) == LE32(F32Bits(v))

\* struct.unpack("<f", ...) of the four bytes of file data d that follow offset off
F32At(d, off) == F32Val(U32At(d, off))

-----------------------------------------------------------------------------
(* aabb_io.py: the structure-of-arrays binary format *)

\* b"AASO"
Magic == <<65, 65, 83, 79>>

\* struct.pack("<4sIIffI", magic, version, n, width, height, reserved)
PackHeader(magic, version, n, width, height, reserved) ==
    magic \o LE32(version) \o LE32(n) \o PackF32(width) \o PackF32(height) \o LE32(reserved)

\* struct.pack("<" + "f" * n, *xs)
PackArray(xs) == [k \in 1..(4 * Len(xs)) |-> PackF32(xs[((k - 1) \div 4) + 1])[((k - 1) % 4) + 1]]

\* The bytes write_soa_bin puts in the file: the header, then the four
\* coordinate arrays back to back.  A box is <<min_x, min_y, max_x, max_y>>.
SoaBytes(boxes, width, height) ==
    LET n == Len(boxes)
        min_xs == [k \in 1..n |-> boxes[k][1]]
        min_ys == [k \in 1..n |-> boxes[k][2]]
        max_xs == [k \in 1..n |-> boxes[k][3]]
        max_ys == [k \in 1..n |-> boxes[k][4]]
    IN  PackHeader(Magic, 1, n, width, height, 0)
          \o PackArray(min_xs) \o PackArray(min_ys) \o PackArray(max_xs) \o PackArray(max_ys)

\* The names bound in module aabb_io when write_soa_bin runs: the module
\* imports struct and, from typing, List and Tuple (lines 8-9), and nothing else.
ModuleNames == {"struct", "List", "Tuple", "write_soa_bin", "read_soa_arrays", "read_soa_boxes"}

\* write_soa_bin(path, boxes, width, height) with f0 the file at path before
\* the call: how the call ends and the file after it.  Line 20 evaluates
\* os.path.dirname(path) first; a name the module does not bind raises
\* NameError there, before the file is opened.
write_soa_bin(f0, boxes, width, height) ==
    IF "os" \notin ModuleNames
    THEN [ended |-> "NameError: name 'os' is not defined", file |-> f0]
    ELSE [ended |-> "returned", file |-> File(Bytes(SoaBytes(boxes, width, height)))]

\* a variant of VersionOk: any version is accepted
VersionOk_any(version) == TRUE

\* read_soa_arrays, line 49: the version the reader supports
VersionOk(version) == version = 1

\* read_f32(n_) of read_soa_arrays with the file position at pos: the values,
\* the new position, and whether 4 * n_ bytes were there.
ReadF32(d, pos, n_) ==
    IF n_ = 0 THEN [ok |-> TRUE, vals |-> <<>>, pos |-> pos]
    ELSE LET got == IF FLen(d) - pos < 4 * n_ THEN FLen(d) - pos ELSE 4 * n_
         IN  IF got # 4 * n_
             THEN [ok |-> FALSE, vals |-> <<>>, pos |-> pos + got]
             ELSE [ok |-> TRUE,
                   vals |-> [k \in 1..n_ |-> F32At(d, pos + 4 * (k - 1))],
                   pos |-> pos + got]

Failed(e) == [err |-> e]

\* read_soa_arrays(path) on the file file_
ReadSoaArrays(file_) ==
    IF ~file_.exists THEN Failed("FileNotFoundError")
    ELSE LET d == file_.data
             hdr == Bytes(FRead(d, 0, 24))
         IN
         IF FLen(hdr) # 24 THEN Failed("SoA file too small for header")
         ELSE IF FRead(hdr, 0, 4) # Magic THEN Failed("Invalid SoA magic")
         ELSE IF ~VersionOk(U32At(hdr, 4)) THEN Failed("Unsupported SoA version")
         ELSE LET n  == U32At(hdr, 8)
                  a1 == ReadF32(d, 24, n)
                  a2 == ReadF32(d, a1.pos, n)
                  a3 == ReadF32(d, a2.pos, n)
                  a4 == ReadF32(d, a3.pos, n)
              IN  IF ~a1.ok \/ ~a2.ok \/ ~a3.ok \/ ~a4.ok
                  THEN Failed("Unexpected EOF reading SoA array")
                  ELSE [err |-> "none", min_x |-> a1.vals, min_y |-> a2.vals,
                        max_x |-> a3.vals, max_y |-> a4.vals, n |-> n,
                        world_w |-> F32At(hdr, 12), world_h |-> F32At(hdr, 16)]

-----------------------------------------------------------------------------
(* Strings: a string is a sequence of characters *)

\* the characters of the model in code-point order
Alphabet ==
    <<" ", ",", "0", "1", "2", "3", "4", "5", "6", "7", "8", "9",
      "D", "I", "d", "i">>

\* the rank of a character's code point
Ord(c) == CHOOSE k \in 1..Len(Alphabet) : Alphabet[k] = c

\* str.lower of one character
LowerChar(c) == IF c = "D" THEN "d" ELSE IF c = "I" THEN "i" ELSE c

\* s.lower()
Lower(s) == [k \in 1..Len(s) |-> LowerChar(s[k])]

RECURSIVE LStrip(_)
LStrip(s) == IF s # <<>> /\ Head(s) = " " THEN LStrip(Tail(s)) ELSE s

RECURSIVE RStrip(_)
RStrip(s) == IF s # <<>> /\ s[Len(s)] = " " THEN RStrip(SubSeq(s, 1, Len(s) - 1)) ELSE s

\* s.strip()
Strip(s) == RStrip(LStrip(s))

\* s.startswith(p)
StartsWith(s, p) == Len(s) >= Len(p) /\ SubSeq(s, 1, Len(p)) = p

\* a < b for Python strings: lexicographic by code point
RECURSIVE StrLess(_, _)
StrLess(a, b) ==
    IF b = <<>> THEN FALSE
    ELSE IF a = <<>> THEN TRUE
    ELSE IF Head(a) # Head(b) THEN Ord(Head(a)) < Ord(Head(b))
    ELSE StrLess(Tail(a), Tail(b))

\* the cells of a line with no quote in it: split at the commas
RECURSIVE SplitComma(_)
SplitComma(line) ==
    IF \A k \in 1..Len(line) : line[k] # ","
    THEN <<line>>
    ELSE LET c == CHOOSE k \in 1..Len(line) :
                      line[k] = "," /\ \A m \in 1..(k - 1) : line[m] # ","
         IN  <<SubSeq(line, 1, c - 1)>> \o SplitComma(SubSeq(line, c + 1, Len(line)))

\* the row csv.reader yields for a line: an empty line gives the empty row
CsvCells(line) == IF line = <<>> THEN <<>> ELSE SplitComma(line)

-----------------------------------------------------------------------------
(* judge.py *)

\* Counter(): a Counter is a function from keys to positive counts
EmptyCounter == [k \in {} |-> 0]

\* a variant of Counter: a set, every key counted once
Counter_asSet(list) == [x \in { list[k] : k \in 1..Len(list) } |-> 1]

\* Counter(list)
Counter(list) ==
    [x \in { list[k] : k \in 1..Len(list) } |->
        Cardinality({ k \in 1..Len(list) : list[k] = x })]

\* c[x] of a Counter: 0 for a key it does not hold
Count(c, x) == IF x \in DOMAIN c THEN c[x] ELSE 0

\* Counter.__sub__: the keys whose count stays positive
CounterSub(c1, c2) ==
    [x \in { y \in DOMAIN c1 : c1[y] - Count(c2, y) > 0 } |-> c1[x] - Count(c2, x)]

\* a variant of IsHeader: only the first cell is looked at
IsHeader_firstCell(first) ==
    /\ Len(first) >= 2
    /\ StartsWith(Lower(Strip(first[1])), <<"i", "d">>)

\* read_pairs, line 29: the first row looks like a header
IsHeader(first) ==
    /\ Len(first) >= 2
    /\ StartsWith(Lower(Strip(first[1])), <<"i", "d">>)
    /\ StartsWith(Lower(Strip(first[2])), <<"i", "d">>)

\* read_pairs, line 32: an empty row or a row of blank cells is passed over
IsBlankRow(r) == r = <<>> \/ \A k \in 1..Len(r) : Strip(r[k]) = <<>>

\* a variant of SortedPair: the endpoints are kept in the order read
SortedPair_asRead(a, b) == <<a, b>>

\* tuple(sorted((a, b)))
SortedPair(a, b) == IF StrLess(b, a) THEN <<b, a>> ELSE <<a, b>>

\* read_pairs, lines 34-36: the normalized pair of a row
NormRow(r) ==
    LET a == Strip(r[1])
        b == IF Len(r) > 1 THEN Strip(r[2]) ELSE <<>>
    IN  SortedPair(a, b)

\* read_pairs, lines 26-37: the list `pairs` of the rows
PairList(rows) ==
    LET start == IF IsHeader(rows[1]) THEN 1 ELSE 0
        kept  == SelectSeq(SubSeq(rows, start + 1, Len(rows)), LAMBDA r : ~IsBlankRow(r))
    IN  [k \in 1..Len(kept) |-> NormRow(kept[k])]

\* read_pairs(path) on an existing file
read_pairs(f) ==
    LET rows == [k \in 1..Len(f.data) |-> CsvCells(f.data[k])]
    IN  IF rows = <<>> THEN EmptyCounter ELSE Counter(PairList(rows))

\* the entries main prints for a difference: key and count
Entries(c) == { <<x, c[x]>> : x \in DOMAIN c }

NoOutput == [kind |-> "none", missing |-> {}, extra |-> {}]
Printed(kind) == [kind |-> kind, missing |-> {}, extra |-> {}]

\* a variant of NotFound: a missing file ends like a mismatch
NotFound_asMismatch == Exited(2)

\* main, lines 52 and 55: the status returned for a missing file
NotFound == Exited(1)

JudgeIdle ==
    /\ expFile = NoFile
    /\ actFile = NoFile
    /\ jpc = "idle"
    /\ jreads = <<>>
    /\ exp = EmptyCounter
    /\ act = EmptyCounter
    /\ jout = NoOutput
    /\ jexit = Running

\* main, lines 50-52: the expected file is missing
JudgeCheckExpected ==
    /\ jpc = "start"
    /\ IF ~expFile.exists
       THEN jout' = Printed("Expected file not found") /\ jexit' = NotFound /\ jpc' = "done"
       ELSE jpc' = "checkActual" /\ UNCHANGED <<jout, jexit>>
    /\ UNCHANGED <<expFile, actFile, jreads, exp, act>>
    /\ UNCHANGED notJudge

\* main, lines 53-55: the actual file is missing
JudgeCheckActual ==
    /\ jpc = "checkActual"
    /\ IF ~actFile.exists
       THEN jout' = Printed("Actual file not found") /\ jexit' = NotFound /\ jpc' = "done"
       ELSE jpc' = "readExpected" /\ UNCHANGED <<jout, jexit>>
    /\ UNCHANGED <<expFile, actFile, jreads, exp, act>>
    /\ UNCHANGED notJudge

\* main, line 57
JudgeReadExpected ==
    /\ jpc = "readExpected"
    /\ exp' = read_pairs(expFile)
    /\ jreads' = Append(jreads, "expected")
    /\ jpc' = "readActual"
    /\ UNCHANGED <<expFile, actFile, act, jout, jexit>>
    /\ UNCHANGED notJudge

\* main, line 58
JudgeReadActual ==
    /\ jpc = "readActual"
    /\ act' = read_pairs(actFile)
    /\ jreads' = Append(jreads, "actual")
    /\ jpc' = "compare"
    /\ UNCHANGED <<expFile, actFile, exp, jout, jexit>>
    /\ UNCHANGED notJudge

\* main, lines 59-76: the verdict and the report
JudgeCompare ==
    /\ jpc = "compare"
    /\ IF exp = act
       THEN jout' = Printed("OK: pairs match") /\ jexit' = Exited(0)
       ELSE LET missing == CounterSub(exp, act)
                extra == CounterSub(act, exp)
            IN  /\ jout' = [kind |-> "differ",
                            missing |-> Entries(missing),
                            extra |-> Entries(extra)]
                /\ jexit' = Exited(2)
    /\ jpc' = "done"
    /\ UNCHANGED <<expFile, actFile, jreads, exp, act>>
    /\ UNCHANGED notJudge

NoDataset == [boxes |-> <<>>, width |-> 0, height |-> 0]

CodecIdle ==
    /\ cpc = "idle"
    /\ cin = NoDataset
    /\ cfile = NoFile
    /\ cwrite = "none"
    /\ crd = NoData

\* the caller writes its dataset
CodecWrite ==
    /\ cpc = "write"
    /\ LET w == write_soa_bin(cfile, cin.boxes, cin.width, cin.height)
       IN  cwrite' = w.ended /\ cfile' = w.file
    /\ cpc' = "read"
    /\ UNCHANGED <<cin, crd>>
    /\ UNCHANGED notCodec

\* the caller reads the file at path
CodecRead ==
    /\ cpc = "read"
    /\ crd' = ReadSoaArrays(cfile)
    /\ cpc' = "done"
    /\ UNCHANGED <<cin, cfile, cwrite>>
    /\ UNCHANGED notCodec

-----------------------------------------------------------------------------
(* Exact arithmetic for gen.py: a number is a fraction <<numerator,          *)
(* denominator>> in lowest terms with a positive denominator.  The floats   *)
(* of the generator are modelled by the real numbers they approximate.      *)

RECURSIVE GCD(_, _)
GCD(a, b) == IF b = 0 THEN a ELSE GCD(b, a % b)

Abs(a) == IF a < 0 THEN 0 - a ELSE a

Frac(n, d) ==
    LET g == GCD(Abs(n), Abs(d))
        sg == IF d < 0 THEN 0 - 1 ELSE 1
    IN  <<(sg * n) \div g, (sg * d) \div g>>

Num(k) == <<k, 1>>
RAdd(x, y) == Frac(x[1] * y[2] + y[1] * x[2], x[2] * y[2])
RSub(x, y) == Frac(x[1] * y[2] - y[1] * x[2], x[2] * y[2])
RMul(x, y) == Frac(x[1] * y[1], x[2] * y[2])
RDiv(x, y) == Frac(x[1] * y[2], x[2] * y[1])
RLt(x, y) == x[1] * y[2] < y[1] * x[2]
RLe(x, y) == x[1] * y[2] <= y[1] * x[2]
\* min(x, y) and max(x, y)
RMin(x, y) == IF RLt(y, x) THEN y ELSE x
RMax(x, y) == IF RLt(x, y) THEN y ELSE x

\* math.ceil(math.sqrt(x)) for x >= 0: the least integer whose square reaches x
CeilSqrt(x) == CHOOSE c \in 0..(Abs(x[1]) + 1) :
                  /\ RLe(x, Num(c * c))
                  /\ \A b \in 0..(c - 1) : RLt(Num(b * b), x)

\* math.ceil(a / b) for integers a >= 0 and b > 0
CeilDiv(a, b) == (a + b - 1) \div b

-----------------------------------------------------------------------------
(* gen.py: the distribution generator *)

\* clamp(v, lo, hi)
clamp(v, lo, hi) == RMax(lo, RMin(hi, v))

\* The values random.random() takes in the model, and random.uniform(a, b) =
\* a + (b - a) * random.random()
Draws == { Num(0), Num(1) }
Uniform(a, b, t) == RAdd(a, RMul(RSub(b, a), t))

\* The pairs <<hw, hh>> sample_size can return.
sample_size(min_size, max_size, width, height, size_dist, big_fraction, big_size_mult) ==
    LET max_edge_world == RMin(width, height)
        half == Frac(1, 2)
    IN  IF size_dist = "uniform"
        THEN { <<Uniform(RMul(min_size, half), RMul(max_size, half), t1),
                 Uniform(RMul(min_size, half), RMul(max_size, half), t2)>> :
               t1 \in Draws, t2 \in Draws }
        ELSE LET big_max == RMin(max_edge_world, RMul(max_size, big_size_mult))
                 upper_small == RMin(max_size,
                                     RAdd(min_size, RMul(RSub(max_size, min_size), Frac(3, 10))))
                 bigEdges == IF RLt(Num(0), big_fraction)
                             THEN { Uniform(RMul(max_size, half), RMul(big_max, half), t) :
                                    t \in Draws }
                             ELSE {}
                 smallEdges == IF RLt(big_fraction, Num(1))
                               THEN { Uniform(RMul(min_size, half), RMul(upper_small, half), t) :
                                      t \in Draws }
                               ELSE {}
                 aspects == { Uniform(Frac(4, 5), Frac(5, 4), t) : t \in Draws }
             IN  { <<RMul(edge, aspect), RDiv(edge, aspect)>> :
                   edge \in bigEdges \cup smallEdges, aspect \in aspects }

SampleSize == sample_size(args.min_size, args.max_size, args.width, args.height,
                          args.size_dist, args.big_fraction, args.big_size_mult)

\* gen_uniform and gen_clustered, lines 69-81: the box about the center
\* (x, y), clamped to the world and put in order
ClampedBox(x, y, hw, hh, width, height) ==
    LET min_x == clamp(RSub(x, hw), Num(0), width)
        max_x == clamp(RAdd(x, hw), Num(0), width)
        min_y == clamp(RSub(y, hh), Num(0), height)
        max_y == clamp(RAdd(y, hh), Num(0), height)
    IN  << IF RLt(max_x, min_x) THEN max_x ELSE min_x,
           IF RLt(max_y, min_y) THEN max_y ELSE min_y,
           IF RLt(max_x, min_x) THEN min_x ELSE max_x,
           IF RLt(max_y, min_y) THEN min_y ELSE max_y >>

GenIdle ==
    /\ args = [n |-> 0]
    /\ gpc = "idle"
    /\ gerr = "none"
    /\ centers = <<>>
    /\ gr = 0
    /\ gc = 0
    /\ idx = 0
    /\ gboxes = <<>>
    /\ gout = NoFile

\* a variant of positive: zero is let through
positive_allowsZero(val, name) ==
    IF RLt(val, Num(0)) THEN name \o " must be positive" ELSE "none"

\* positive(val, name): the error it raises, or "none".  The message goes on
\* with "; got <val>", which is left out here.
positive(val, name) == IF RLe(val, Num(0)) THEN name \o " must be positive" ELSE "none"

\* main, lines 259-266: the first validation error, or "none"
Validate(a) ==
    IF a.n <= 0 THEN "--n must be > 0"
    ELSE IF positive(a.width, "--width") # "none" THEN positive(a.width, "--width")
    ELSE IF positive(a.height, "--height") # "none" THEN positive(a.height, "--height")
    ELSE IF positive(a.min_size, "--min-size") # "none" THEN positive(a.min_size, "--min-size")
    ELSE IF positive(a.max_size, "--max-size") # "none" THEN positive(a.max_size, "--max-size")
    ELSE IF RLt(a.max_size, a.min_size) THEN "--min-size must be <= --max-size"
    ELSE "none"

\* main, lines 269-274: max_size is cut to the world, and min_size to it
ClampSizes(a) ==
    LET max_allowed == RMin(a.width, a.height)
    IN  IF RLt(max_allowed, a.max_size)
        THEN [a EXCEPT !.max_size = max_allowed,
                       !.min_size = IF RLt(max_allowed, a.min_size) THEN max_allowed
                                    ELSE a.min_size]
        ELSE a

\* main, lines 258-274
GenValidate ==
    /\ gpc = "start"
    /\ gerr' = Validate(args)
    /\ IF gerr' # "none"
       THEN gpc' = "raised" /\ args' = args
       ELSE gpc' = args.distribution /\ args' = ClampSizes(args)
    /\ UNCHANGED <<centers, gr, gc, idx, gboxes>>
    /\ UNCHANGED <<gout, notGen>>

\* gen_uniform: one turn of the loop, or its end
GenUniform ==
    /\ gpc = "uniform"
    /\ IF Len(gboxes) < args.n
       THEN /\ \E s \in SampleSize, tx \in Draws, ty \in Draws :
                 LET hw == s[1]
                     hh == s[2]
                     x == Uniform(hw, RMax(hw, RSub(args.width, hw)), tx)
                     y == Uniform(hh, RMax(hh, RSub(args.height, hh)), ty)
                 IN  gboxes' = Append(gboxes, ClampedBox(x, y, hw, hh, args.width, args.height))
            /\ gpc' = gpc
       ELSE gpc' = "generated" /\ gboxes' = gboxes
    /\ UNCHANGED <<args, gerr, centers, gr, gc, idx>>
    /\ UNCHANGED <<gout, notGen>>

\* gen_clustered: k_clusters and pos_sigma_ratio, which main leaves at their defaults
k_clusters == 4
pos_sigma_ratio == Frac(1, 20)

\* the standard normal deviates of the model: random.gauss(mu, sigma) = mu + sigma * z
Deviates == { Num(0 - 8), Num(8) }

\* the pairs of draws that place a cluster center in the model
CenterDraws == { <<Num(0), Num(0)>>, <<Num(1), Num(1)>> }

\* gen_clustered, lines 99-105: the cluster centers are drawn
GenCenters ==
    /\ gpc = "clustered"
    /\ \E t \in [1..k_clusters -> CenterDraws] :
          centers' = [k \in 1..k_clusters |->
                        << Uniform(RMul(Frac(15, 100), args.width), RMul(Frac(85, 100), args.width), t[k][1]),
                           Uniform(RMul(Frac(15, 100), args.height), RMul(Frac(85, 100), args.height), t[k][2]) >>]
    /\ gpc' = "cluster boxes"
    /\ UNCHANGED <<args, gerr, gr, gc, idx, gboxes>>
    /\ UNCHANGED <<gout, notGen>>

\* gen_clustered: one turn of the loop, or its end
GenClustered ==
    /\ gpc = "cluster boxes"
    /\ IF Len(gboxes) < args.n
       THEN /\ \E k \in 1..Len(centers), s \in SampleSize, zx \in Deviates, zy \in Deviates :
                 LET hw == s[1]
                     hh == s[2]
                     sigma_x == RMul(args.width, pos_sigma_ratio)
                     sigma_y == RMul(args.height, pos_sigma_ratio)
                     x == clamp(RAdd(centers[k][1], RMul(sigma_x, zx)),
                                hw, RMax(hw, RSub(args.width, hw)))
                     y == clamp(RAdd(centers[k][2], RMul(sigma_y, zy)),
                                hh, RMax(hh, RSub(args.height, hh)))
                 IN  gboxes' = Append(gboxes, ClampedBox(x, y, hw, hh, args.width, args.height))
            /\ gpc' = gpc
            /\ centers' = centers
       ELSE \* return boxes: the local `centers` is gone
            gpc' = "generated" /\ gboxes' = gboxes /\ centers' = <<>>
    /\ UNCHANGED <<args, gerr, gr, gc, idx>>
    /\ UNCHANGED <<gout, notGen>>

\* gen_grid, lines 143-144
GridCols(n, width, height) ==
    IF RLt(Num(0), height) THEN CeilSqrt(RMul(Num(n), RDiv(width, height))) ELSE n
GridRows(n, cols) == IF cols > 0 THEN CeilDiv(n, cols) ELSE 1

\* a variant of GridBox: the half-extents are not capped by the cell
GridBox_uncapped(r, c, s, cols, rows, width, height) ==
    LET cell_w == RDiv(width, Num(cols))
        cell_h == RDiv(height, Num(rows))
        center_x == RMul(RAdd(Num(c), Frac(1, 2)), cell_w)
        center_y == RMul(RAdd(Num(r), Frac(1, 2)), cell_h)
    IN  << clamp(RSub(center_x, s[1]), Num(0), width),
           clamp(RSub(center_y, s[2]), Num(0), height),
           clamp(RAdd(center_x, s[1]), Num(0), width),
           clamp(RAdd(center_y, s[2]), Num(0), height) >>

\* gen_grid, lines 152-162: the box of cell (r, c) for the sampled <<hw, hh>>
GridBox(r, c, s, cols, rows, width, height) ==
    LET cell_w == RDiv(width, Num(cols))
        cell_h == RDiv(height, Num(rows))
        hw == RMin(s[1], RMul(cell_w, Frac(45, 100)))
        hh == RMin(s[2], RMul(cell_h, Frac(45, 100)))
        center_x == RMul(RAdd(Num(c), Frac(1, 2)), cell_w)
        center_y == RMul(RAdd(Num(r), Frac(1, 2)), cell_h)
    IN  << clamp(RSub(center_x, hw), Num(0), width),
           clamp(RSub(center_y, hh), Num(0), height),
           clamp(RAdd(center_x, hw), Num(0), width),
           clamp(RAdd(center_y, hh), Num(0), height) >>

\* gen_grid: one turn of `for c in range(cols)` within `for r in range(rows)`:
\* a box is placed, or the inner loop ends (by exhaustion or by the break)
GenGrid ==
    /\ gpc = "grid"
    /\ LET cols == GridCols(args.n, args.width, args.height)
           rows == GridRows(args.n, cols)
       IN  IF gr >= rows
           THEN gpc' = "generated" /\ UNCHANGED <<gr, gc, idx, gboxes>>
           ELSE IF gc < cols /\ idx < args.n
           THEN /\ \E s \in SampleSize :
                     gboxes' = Append(gboxes, GridBox(gr, gc, s, cols, rows, args.width, args.height))
                /\ idx' = idx + 1
                /\ gc' = gc + 1
                /\ UNCHANGED <<gpc, gr>>
           ELSE /\ gr' = gr + 1
                /\ gc' = 0
                /\ UNCHANGED <<gpc, idx, gboxes>>
    /\ UNCHANGED <<args, gerr, centers>>
    /\ UNCHANGED <<gout, notGen>>

\* gen_packed, lines 184-185
PackedCols(n) == CeilSqrt(Num(n))
PackedRows(n, cols) == CeilDiv(n, cols)

\* gen_packed, lines 195-209: the box of cell (r, c) for the sampled <<hw, hh>>
\* and the jitter draws jx, jy of random.uniform(-0.25, 0.25)
PackedBox(r, c, s, jx, jy, cols, rows, width, height, packed_overlap_mult) ==
    LET cell_w == RDiv(width, Num(cols))
        cell_h == RDiv(height, Num(rows))
        hw == RMul(s[1], packed_overlap_mult)
        hh == RMul(s[2], packed_overlap_mult)
        jitter_x == RMul(jx, cell_w)
        jitter_y == RMul(jy, cell_h)
        center_x == clamp(RAdd(RMul(RAdd(Num(c), Frac(1, 2)), cell_w), jitter_x),
                          RAdd(Num(0), hw), RSub(width, hw))
        center_y == clamp(RAdd(RMul(RAdd(Num(r), Frac(1, 2)), cell_h), jitter_y),
                          RAdd(Num(0), hh), RSub(height, hh))
    IN  << RSub(center_x, hw), RSub(center_y, hh), RAdd(center_x, hw), RAdd(center_y, hh) >>

\* gen_packed: one turn of the inner loop, as in gen_grid
GenPacked ==
    /\ gpc = "packed"
    /\ LET cols == PackedCols(args.n)
           rows == PackedRows(args.n, cols)
       IN  IF gr >= rows
           THEN gpc' = "generated" /\ UNCHANGED <<gr, gc, idx, gboxes>>
           ELSE IF gc < cols /\ idx < args.n
           THEN /\ \E s \in SampleSize, tx \in Draws, ty \in Draws :
                     gboxes' = Append(gboxes,
                                PackedBox(gr, gc, s,
                                          Uniform(Frac(0 - 1, 4), Frac(1, 4), tx),
                                          Uniform(Frac(0 - 1, 4), Frac(1, 4), ty),
                                          cols, rows, args.width, args.height,
                                          args.packed_overlap_mult))
                /\ idx' = idx + 1
                /\ gc' = gc + 1
                /\ UNCHANGED <<gpc, gr>>
           ELSE /\ gr' = gr + 1
                /\ gc' = 0
                /\ UNCHANGED <<gpc, idx, gboxes>>
    /\ UNCHANGED <<args, gerr, centers>>
    /\ UNCHANGED <<gout, notGen>>

\* lines 309-311: the total area of the boxes
RECURSIVE TotalArea(_)
TotalArea(bs) ==
    IF bs = <<>> THEN Num(0)
    ELSE RAdd(RMul(RSub(Head(bs)[3], Head(bs)[1]), RSub(Head(bs)[4], Head(bs)[2])),
              TotalArea(Tail(bs)))

\* a variant of Rescaled: the half-extents are not cut to the world
Rescaled_unclamped(b, scale, width, height) ==
    LET cx == RMul(RAdd(b[1], b[3]), Frac(1, 2))
        cy == RMul(RAdd(b[2], b[4]), Frac(1, 2))
        hw == RMul(RMul(RSub(b[3], b[1]), Frac(1, 2)), scale)
        hh == RMul(RMul(RSub(b[4], b[2]), Frac(1, 2)), scale)
    IN  << RSub(cx, hw), RSub(cy, hh), RAdd(cx, hw), RAdd(cy, hh) >>

\* scale_to_occupancy, lines 320-328: one box rescaled by `scale`
Rescaled(b, scale, width, height) ==
    LET cx == RMul(RAdd(b[1], b[3]), Frac(1, 2))
        cy == RMul(RAdd(b[2], b[4]), Frac(1, 2))
        hw == RMin(RMin(RMul(RMul(RSub(b[3], b[1]), Frac(1, 2)), scale), cx), RSub(width, cx))
        hh == RMin(RMin(RMul(RMul(RSub(b[4], b[2]), Frac(1, 2)), scale), cy), RSub(height, cy))
    IN  << RSub(cx, hw), RSub(cy, hh), RAdd(cx, hw), RAdd(cy, hh) >>

\* The scale factors of the model.  args.occupancy is "none", "non-positive"
\* or "positive"; a positive occupancy o gives scale = sqrt(o * world_area /
\* current_area), which is any positive number for a suitable o.
Scales == { Frac(1, 2), Num(1), Num(3) }

\* scale_to_occupancy(boxes) for the scale factor `scale`
scale_to_occupancy(bs, scale) ==
    IF args.occupancy = "none" THEN bs
    ELSE IF RLe(RMul(args.width, args.height), Num(0)) THEN bs
    ELSE IF RLe(TotalArea(bs), Num(0)) THEN bs
    ELSE IF args.occupancy = "non-positive" THEN bs
    ELSE IF scale = Num(1) THEN bs
    ELSE [k \in 1..Len(bs) |-> Rescaled(bs[k], scale, args.width, args.height)]

\* main, line 331
GenScale ==
    /\ gpc = "generated"
    /\ \E scale \in Scales : gboxes' = scale_to_occupancy(gboxes, scale)
    /\ gpc' = "scaled"
    /\ UNCHANGED <<args, gerr, centers, gr, gc, idx>>
    /\ UNCHANGED <<gout, notGen>>

-----------------------------------------------------------------------------
(* ground_truth.py: the brute-force oracle *)

\* a variant of intersects that treats the boxes as open: touching is no overlap
intersects_open(i, j, min_x, min_y, max_x, max_y) ==
    ~ (\/ max_x[i + 1] <= min_x[j + 1]
       \/ max_x[j + 1] <= min_x[i + 1]
       \/ max_y[i + 1] <= min_y[j + 1]
       \/ max_y[j + 1] <= min_y[i + 1])

\* intersects(i, j, min_x, min_y, max_x, max_y); i and j are 0-based
intersects(i, j, min_x, min_y, max_x, max_y) ==
    ~ (\/ max_x[i + 1] < min_x[j + 1]
       \/ max_x[j + 1] < min_x[i + 1]
       \/ max_y[i + 1] < min_y[j + 1]
       \/ max_y[j + 1] < min_y[i + 1])

\* str(k) for k >= 0: the decimal digits, as a sequence of characters
Digit(d) == <<"0", "1", "2", "3", "4", "5", "6", "7", "8", "9">>[d + 1]

RECURSIVE Str(_)
Str(k) == IF k < 10 THEN <<Digit(k)>> ELSE Str(k \div 10) \o <<Digit(k % 10)>>

\* csv.writer.writerow([a, b]): the line written, without its terminator
CsvRow(a, b) == a \o <<",">> \o b

\* the rows main writes to args.out: the header, then one row per pair
CsvOut(ps) ==
    <<CsvRow(<<"i", "d", "1">>, <<"i", "d", "2">>)>>
      \o [k \in 1..Len(ps) |-> CsvRow(Str(ps[k][1]), Str(ps[k][2]))]

\* The boxes of the exhaustively enumerated datasets.
Palette ==
    { <<0, 0, 2, 2>>, <<1, 1, 3, 3>>, <<5, 5, 6, 6>>,     \* overlap, disjoint
      <<0, 0, 1, 1>>, <<1, 0, 2, 1>>,                    \* share the edge x = 1
      <<3, 3, 4, 4>> }                                   \* shares a corner with the 2nd

SeqsUpTo(S, n) == UNION { [1..k -> S] : k \in 0..n }

\* The file of a dataset of n boxes whose coordinates are all v: the header,
\* then 4 * n times the float32 v.
BigSoa(n, v, width, height) ==
    <<[unit |-> PackHeader(Magic, 1, n, width, height, 0), rep |-> 1],
      [unit |-> PackF32(v), rep |-> 4 * n]>>

OracleInputs ==
    { File(Bytes(SoaBytes(b, 100, 100))) : b \in SeqsUpTo(Palette, MaxN) }
      \cup { File(BigSoa(n, 1, 100, 100)) : n \in {BigN, BigN + 1} }
      \cup { File(Bytes(SubSeq(SoaBytes(<<<<0, 0, 2, 2>>>>, 100, 100), 1, 30))), NoFile }

\* the four lists main holds after line 50
Loaded == ReadSoaArrays(file)

\* what main keeps of read_soa_arrays' result besides the four lists
Header(r) ==
    IF r.err = "none"
    THEN [err |-> "none", n |-> r.n, world_w |-> r.world_w, world_h |-> r.world_h]
    ELSE r

OracleInit ==
    /\ file \in OracleInputs
    /\ force \in BOOLEAN
    /\ opc = "start"
    /\ ds = NoData
    /\ est = 0
    /\ oi = 0
    /\ oj = 0
    /\ pairs = <<>>
    /\ tests = 0
    /\ outcsv = NoFile
    /\ oexit = Running
    /\ JudgeIdle
    /\ CodecIdle
    /\ GenIdle

\* main, line 50: read the dataset; an exception ends the process (status 1)
OracleLoad ==
    /\ opc = "start"
    /\ ds' = LET r == ReadSoaArrays(file) IN Header(r)
    /\ IF ds'.err = "none"
       THEN opc' = "loaded" /\ oexit' = oexit
       ELSE opc' = "raised" /\ oexit' = Exited(1)
    /\ UNCHANGED <<file, force, est, oi, oj, pairs, tests, outcsv>>
    /\ UNCHANGED notOracle

\* a variant of Refuses: the force flag is not consulted
Refuses_noForce(est_checks, forced) == est_checks > max_checks

\* the guard of main, as the code writes it
Refuses(est_checks, forced) == est_checks > max_checks /\ ~forced

\* main, lines 53-57: the estimate and the refusal
OracleGuard ==
    /\ opc = "loaded"
    /\ est' = (ds.n * (ds.n - 1)) \div 2
    /\ IF Refuses(est', force)
       THEN opc' = "refused" /\ oexit' = Exited(2)
       ELSE opc' = "outer" /\ oexit' = oexit
    /\ oi' = 0
    /\ UNCHANGED <<file, force, ds, oj, pairs, tests, outcsv>>
    /\ UNCHANGED notOracle

\* a variant of FirstJ: the inner loop starts at i itself
FirstJ_fromI(i) == i

\* a variant of AppendPair: the pair is put in front
AppendPair_front(ps, i, j) == <<<<i, j>>>> \o ps

\* the first value `for j in range(i + 1, n)` takes
FirstJ(i) == i + 1

\* pairs.append((i, j))
AppendPair(ps, i, j) == Append(ps, <<i, j>>)

\* brute_force_pairs: `for i in range(n)` takes its next value, or ends
BruteOuter ==
    /\ opc = "outer"
    /\ IF oi < ds.n
       THEN opc' = "inner" /\ oj' = FirstJ(oi)
       ELSE opc' = "found" /\ oj' = oj
    /\ UNCHANGED <<file, force, ds, est, oi, pairs, tests, outcsv, oexit>>
    /\ UNCHANGED notOracle

\* brute_force_pairs: one turn of `for j in range(i + 1, n)`, or its end
BruteInner ==
    /\ opc = "inner"
    /\ IF ds.n <= MaxN THEN TRUE ELSE tests < MaxBigTests
    /\ IF oj < ds.n
       THEN /\ pairs' = LET a == Loaded
                         IN  IF intersects(oi, oj, a.min_x, a.min_y, a.max_x, a.max_y)
                             THEN AppendPair(pairs, oi, oj)
                             ELSE pairs
            /\ tests' = tests + 1
            /\ oj' = oj + 1
            /\ UNCHANGED <<oi, opc>>
       ELSE /\ oi' = oi + 1
            /\ opc' = "outer"
            /\ UNCHANGED <<oj, pairs, tests>>
    /\ UNCHANGED <<file, force, ds, est, outcsv, oexit>>
    /\ UNCHANGED notOracle

\* main, lines 63-68: write the CSV
OracleWrite ==
    /\ opc = "found"
    /\ outcsv' = File(CsvOut(pairs))
    /\ opc' = "done"
    /\ oexit' = Exited(0)
    /\ UNCHANGED <<file, force, ds, est, oi, oj, pairs, tests>>
    /\ UNCHANGED notOracle

OracleNext == OracleLoad \/ OracleGuard \/ BruteOuter \/ BruteInner \/ OracleWrite

OracleSpec == OracleInit /\ [][OracleNext]_vars

-----------------------------------------------------------------------------
(* The judge on two pair lists *)

\* the line "a,b"
PairLine(a, b) == a \o <<",">> \o b

\* the pair lines of the judge's inputs
JudgeLines ==
    { PairLine(<<"1">>, <<"2">>), PairLine(<<"2">>, <<"1">>),
      PairLine(<<"2">>, <<"1", "0">>), PairLine(<<"1", "0">>, <<"2">>) }

JudgeFiles == { File(l) : l \in SeqsUpTo(JudgeLines, MaxLines) } \cup {NoFile}

OracleIdle ==
    /\ file = NoFile
    /\ force = FALSE
    /\ opc = "idle"
    /\ ds = NoData
    /\ est = 0
    /\ oi = 0
    /\ oj = 0
    /\ pairs = <<>>
    /\ tests = 0
    /\ outcsv = NoFile
    /\ oexit = Running

JudgeInit ==
    /\ expFile \in JudgeFiles
    /\ actFile \in JudgeFiles
    /\ jpc = "start"
    /\ jreads = <<>>
    /\ exp = EmptyCounter
    /\ act = EmptyCounter
    /\ jout = NoOutput
    /\ jexit = Running
    /\ OracleIdle
    /\ CodecIdle
    /\ GenIdle

JudgeNext ==
    \/ JudgeCheckExpected
    \/ JudgeCheckActual
    \/ JudgeReadExpected
    \/ JudgeReadActual
    \/ JudgeCompare

JudgeSpec == JudgeInit /\ [][JudgeNext]_vars

-----------------------------------------------------------------------------
(* The codec on datasets and on damaged files *)

CodecBoxes == { <<0, 0, 2, 2>>, <<1, 1, 3, 3>> }

CodecDatasets ==
    { [boxes |-> b, width |-> w, height |-> 100] :
        b \in SeqsUpTo(CodecBoxes, MaxCodecN), w \in {100, 64} }

\* b with the bytes from offset off on replaced by those of word
Patch(b, off, word) ==
    [k \in 1..Len(b) |-> IF k > off /\ k <= off + Len(word) THEN word[k - off] ELSE b[k]]

\* the well-formed file of a dataset
Encoded(d) == SoaBytes(d.boxes, d.width, d.height)

\* the well-formed files and files with a damaged or unusual header
HeaderVariants(b) ==
    { b,
      Patch(b, 0, <<65, 65, 83, 88>>),                   \* magic "AASX"
      Patch(b, 4, LE32(2)),                              \* version 2
      Patch(Patch(b, 0, <<97, 97, 115, 111>>), 4, LE32(0)),   \* "aaso", version 0
      Patch(b, 20, LE32(7)) }                            \* reserved 7

\* every prefix of those, and each with two bytes after its end
CodecFiles ==
    UNION { UNION { { File(Bytes(SubSeq(v, 1, l))) : l \in 0..Len(v) }
                      \cup { File(Bytes(v \o <<0, 0>>)) } :
                    v \in HeaderVariants(Encoded(d)) } :
            d \in CodecDatasets }
      \cup {NoFile}

\* Either the caller writes a dataset to a path that holds nothing or an older
\* file and reads it back, or it reads a file it found.
CodecInit ==
    /\ \/ /\ cpc = "write"
          /\ cin \in CodecDatasets
          /\ cfile \in {NoFile, File(Bytes(Encoded([boxes |-> <<>>, width |-> 100, height |-> 100])))}
       \/ /\ cpc = "read"
          /\ cin = NoDataset
          /\ cfile \in CodecFiles
    /\ cwrite = "none"
    /\ crd = NoData
    /\ OracleIdle
    /\ JudgeIdle
    /\ GenIdle

CodecNext == CodecWrite \/ CodecRead

CodecSpec == CodecInit /\ [][CodecNext]_vars

-----------------------------------------------------------------------------
(* Properties of the oracle *)

\* the index pairs i < j of a dataset
IndexPairs == { p \in (0..(ds.n - 1)) \X (0..(ds.n - 1)) : p[1] < p[2] }

\* the pairs the closed-interval test of the specification accepts
Overlapping ==
    LET a == Loaded IN
    { p \in IndexPairs :
        LET i == p[1] + 1
            j == p[2] + 1
        IN  ~ (\/ a.max_x[i] < a.min_x[j] \/ a.max_x[j] < a.min_x[i]
               \/ a.max_y[i] < a.min_y[j] \/ a.max_y[j] < a.min_y[i]) }

Occurrences(s, x) == Cardinality({ k \in 1..Len(s) : s[k] = x })

OracleRan == opc \in {"found", "done"}

\* C1: when brute_force_pairs has returned, its list holds every index pair
\* i < j whose boxes pass the closed-interval test exactly once, and no other
\* pair.
C1_ExactPairs ==
    OracleRan =>
        /\ \A p \in Overlapping : Occurrences(pairs, p) = 1
        /\ \A k \in 1..Len(pairs) : pairs[k] \in Overlapping

\* the boxes (0,0,2,2), (1,1,3,3), (5,5,6,6) of the specification give {(0, 1)}
C1_Witness ==
    /\ opc = "done"
    /\ file = File(Bytes(SoaBytes(<<<<0, 0, 2, 2>>, <<1, 1, 3, 3>>, <<5, 5, 6, 6>>>>, 100, 100)))
    /\ pairs = <<<<0, 1>>>>

\* boxes i and j (1-based) are well-formed and only touch: they share an edge
\* or a corner and their interiors are disjoint
WellFormed(a, i) == a.min_x[i] <= a.max_x[i] /\ a.min_y[i] <= a.max_y[i]

TouchX(a, i, j) == a.max_x[i] = a.min_x[j] \/ a.max_x[j] = a.min_x[i]
TouchY(a, i, j) == a.max_y[i] = a.min_y[j] \/ a.max_y[j] = a.min_y[i]
MeetX(a, i, j) == a.min_x[i] <= a.max_x[j] /\ a.min_x[j] <= a.max_x[i]
MeetY(a, i, j) == a.min_y[i] <= a.max_y[j] /\ a.min_y[j] <= a.max_y[i]

OnlyTouch(a, i, j) ==
    /\ WellFormed(a, i) /\ WellFormed(a, j)
    /\ \/ TouchX(a, i, j) /\ MeetY(a, i, j)
       \/ TouchY(a, i, j) /\ MeetX(a, i, j)

\* C2: two boxes that only touch (a shared edge, or a shared corner) are in
\* the oracle's result.
C2_TouchingIntersects ==
    OracleRan =>
        LET a == Loaded IN
        \A p \in IndexPairs : OnlyTouch(a, p[1] + 1, p[2] + 1) => Occurrences(pairs, p) = 1

\* (0,0,1,1) and (1,0,2,1) share the line x = 1; (1,1,3,3) and (3,3,4,4) share
\* only the corner (3, 3)
C2_Witness ==
    /\ opc = "done"
    /\ file = File(Bytes(SoaBytes(<<<<0, 0, 1, 1>>, <<1, 0, 2, 1>>, <<5, 5, 6, 6>>>>, 100, 100)))
    /\ pairs = <<<<0, 1>>>>

LexLess(p, q) == p[1] < q[1] \/ (p[1] = q[1] /\ p[2] < q[2])

\* the elements of a set of pairs in increasing lexicographic order
RECURSIVE LexList(_)
LexList(S) ==
    IF S = {} THEN <<>>
    ELSE LET m == CHOOSE p \in S : \A q \in S \ {p} : LexLess(p, q)
         IN  <<m>> \o LexList(S \ {m})

\* C3: the pair list is in strictly increasing lexicographic order at every
\* step, every pair has i < j, the finished list is determined by the dataset
\* alone, and the rows of the CSV follow the list's order.
C3_LexOrder ==
    /\ \A k \in 1..Len(pairs) : pairs[k][1] < pairs[k][2]
    /\ \A k \in 1..(Len(pairs) - 1) : LexLess(pairs[k], pairs[k + 1])
    /\ OracleRan => pairs = LexList(Overlapping)
    /\ opc = "done" =>
          /\ Len(outcsv.data) = Len(pairs) + 1
          /\ \A k \in 1..Len(pairs) :
                outcsv.data[k + 1] = Str(pairs[k][1]) \o <<",">> \o Str(pairs[k][2])

\* three mutually touching or overlapping boxes: all three pairs, in order
C3_Witness ==
    /\ opc = "done"
    /\ pairs = <<<<0, 1>>, <<0, 2>>, <<1, 2>>>>
    /\ outcsv.data[4] = <<"1", ",", "2">>

\* C4: the oracle enters brute_force_pairs only if the estimate is within
\* max_checks or force is given, and refuses only otherwise; a refusal ends
\* with status 2 before any intersection test and without an output file; a
\* finished run wrote the header and the dataset's pairs, whatever force is.
C4_Guard ==
    /\ opc \in {"outer", "inner", "found", "done"} => (est <= max_checks \/ force)
    /\ tests > 0 => (est <= max_checks \/ force)
    /\ opc = "refused" =>
          /\ est > max_checks /\ ~force
          /\ est = (ds.n * (ds.n - 1)) \div 2
          /\ tests = 0 /\ pairs = <<>>
          /\ ~outcsv.exists
          /\ oexit = Exited(2)
    /\ opc # "refused" => oexit # Exited(2)
    /\ opc = "done" => outcsv = File(CsvOut(LexList(Overlapping)))

\* a dataset of BigN + 1 boxes is refused without force
C4_Witness ==
    /\ opc = "refused"
    /\ ds.n = BigN + 1
    /\ est = 200010000
    /\ ~force

\* the same dataset runs with force, and a dataset of BigN boxes runs without
C4_ForcedRun == opc = "inner" /\ tests = MaxBigTests /\ ds.n = BigN + 1 /\ force
C4_UnforcedRun == opc = "inner" /\ tests = MaxBigTests /\ ds.n = BigN /\ ~force

-----------------------------------------------------------------------------
(* Properties of the judge *)

Tokens == { <<"1">>, <<"2">>, <<"1", "0">> }

\* the two endpoints of a pair line, as a set
Endpoints(line) ==
    CHOOSE S \in SUBSET Tokens : \E a, b \in Tokens : S = {a, b} /\ line = PairLine(a, b)

UnorderedPairs == { {a, b} : a, b \in Tokens }

\* how often the unordered pair S occurs among the lines
Times(lines, S) == Cardinality({ k \in 1..Len(lines) : Endpoints(lines[k]) = S })

SameUnorderedBag(l1, l2) == \A S \in UnorderedPairs : Times(l1, S) = Times(l2, S)

JudgeCompared == jpc = "done" /\ expFile.exists /\ actFile.exists

\* C5: the judge reports a match exactly when the two sources hold the same
\* multiset of unordered pairs, whatever the order of their lines and of the
\* two endpoints on a line.
C5_MatchIffSameBag ==
    JudgeCompared =>
        (jexit = Exited(0) <=> SameUnorderedBag(expFile.data, actFile.data))

\* the lines in another order and both pairs swapped: a match
C5_Witness ==
    /\ jpc = "done"
    /\ expFile = File(<<PairLine(<<"1">>, <<"2">>), PairLine(<<"2">>, <<"1", "0">>)>>)
    /\ actFile = File(<<PairLine(<<"1", "0">>, <<"2">>), PairLine(<<"2">>, <<"1">>)>>)
    /\ jexit = Exited(0)

\* the entries a report must hold for `from` minus `other`: for every
\* unordered pair that occurs more often in `from`, one entry whose key has
\* these endpoints, with the difference of the counts
DiffEntries(printed, from, other) ==
    /\ \A S \in UnorderedPairs :
          LET d == Times(from, S) - Times(other, S)
              es == { e \in printed : {e[1][1], e[1][2]} = S }
          IN  IF d > 0
              THEN Cardinality(es) = 1 /\ \A e \in es : e[2] = d
              ELSE es = {}
    /\ \A e \in printed : {e[1][1], e[1][2]} \in UnorderedPairs

\* C6: duplicates are counted: two sources with the same pairs in different
\* numbers mismatch, and on a mismatch the report's missing entries are
\* expected minus actual and its extra entries actual minus expected, each
\* with its positive count difference, one of the two being non-empty.
C6_CountAwareDiff ==
    JudgeCompared =>
        /\ (\E S \in UnorderedPairs :
               Times(expFile.data, S) # Times(actFile.data, S)) => jexit = Exited(2)
        /\ jexit = Exited(2) =>
              /\ DiffEntries(jout.missing, expFile.data, actFile.data)
              /\ DiffEntries(jout.extra, actFile.data, expFile.data)
              /\ jout.missing # {} \/ jout.extra # {}

\* expected [(1,2),(1,2)], actual [(1,2)]: (1,2) missing once, nothing extra
C6_Witness ==
    /\ jpc = "done"
    /\ expFile = File(<<PairLine(<<"1">>, <<"2">>), PairLine(<<"1">>, <<"2">>)>>)
    /\ actFile = File(<<PairLine(<<"1">>, <<"2">>)>>)
    /\ jexit = Exited(2)
    /\ jout.missing = { << <<<<"1">>, <<"2">>>>, 1 >> }
    /\ jout.extra = {}

\* C7: a missing expected or actual file ends with status 1 before either
\* file is read; with both files present the judge reads both and ends with
\* 0 on equal pair multisets and with 2 otherwise.
C7_ThreeOutcomes ==
    /\ jexit \in {Running, Exited(0), Exited(1), Exited(2)}
    /\ jexit = Exited(1) => jreads = <<>> /\ (~expFile.exists \/ ~actFile.exists)
    /\ jreads # <<>> => expFile.exists /\ actFile.exists
    /\ jpc = "done" =>
          /\ jexit # Running
          /\ (~expFile.exists \/ ~actFile.exists) =>
                jexit = Exited(1) /\ exp = EmptyCounter /\ act = EmptyCounter
          /\ (expFile.exists /\ actFile.exists) =>
                /\ jreads = <<"expected", "actual">>
                /\ jexit = IF SameUnorderedBag(expFile.data, actFile.data)
                           THEN Exited(0) ELSE Exited(2)

\* the actual file is missing: status 1, nothing read
C7_Witness ==
    /\ jpc = "done"
    /\ expFile.exists /\ expFile.data # <<>>
    /\ ~actFile.exists
    /\ jexit = Exited(1)
    /\ jreads = <<>>

-----------------------------------------------------------------------------
(* Properties of the codec *)

\* read_soa_arrays returned exactly the dataset d
Returned(r, d) ==
    /\ r.err = "none"
    /\ r.n = Len(d.boxes)
    /\ r.world_w = d.width /\ r.world_h = d.height
    /\ Len(r.min_x) = r.n /\ Len(r.min_y) = r.n /\ Len(r.max_x) = r.n /\ Len(r.max_y) = r.n
    /\ \A k \in 1..r.n : <<r.min_x[k], r.min_y[k], r.max_x[k], r.max_y[k]>> = d.boxes[k]

\* C8: reading the file produced by write_soa_bin(D) returns D: the same N,
\* world width and height, and the same boxes in the same order.
C8_RoundTrip ==
    (cpc = "done" /\ cwrite # "none") => Returned(crd, cin)

\* The layout lines 21-34 of write_soa_bin describe is read back exactly:
\* a file holding SoaBytes of a dataset decodes to that dataset.
LayoutRoundTrip ==
    cpc = "done" =>
        \A d \in CodecDatasets : cfile = File(Bytes(Encoded(d))) => Returned(crd, d)

\* the file's bytes, read directly
RawLen == FLen(cfile.data)
RawMagicOk == \A k \in 1..4 : FByte(cfile.data, k) = Magic[k]
RawVersion == FByte(cfile.data, 5) + 256 * FByte(cfile.data, 6)
                + 65536 * FByte(cfile.data, 7) + 16777216 * FByte(cfile.data, 8)
RawCount == FByte(cfile.data, 9) + 256 * FByte(cfile.data, 10)
              + 65536 * FByte(cfile.data, 11) + 16777216 * FByte(cfile.data, 12)

\* the file with its reserved header field set to zero
ReservedCleared ==
    File(Bytes([k \in 1..RawLen |->
                  IF k \in 21..24 THEN 0 ELSE FByte(cfile.data, k)]))

DecodeErrors ==
    { "SoA file too small for header", "Invalid SoA magic",
      "Unsupported SoA version", "Unexpected EOF reading SoA array" }

\* C9: reading an existing file fails with the header error if it has fewer
\* than 24 bytes, else with the magic error if its magic is not "AASO", else
\* with the version error if its version is not 1, else with the end-of-file
\* error if fewer than 16 * N bytes follow the header; a failure returns no
\* box data; every other file decodes; the reserved field changes nothing.
C9_DecodeErrors ==
    (cpc = "done" /\ cfile.exists) =>
        /\ crd.err =
              IF RawLen < 24 THEN "SoA file too small for header"
              ELSE IF ~RawMagicOk THEN "Invalid SoA magic"
              ELSE IF RawVersion # 1 THEN "Unsupported SoA version"
              ELSE IF RawLen < 24 + 16 * RawCount THEN "Unexpected EOF reading SoA array"
              ELSE "none"
        /\ crd.err \in DecodeErrors => DOMAIN crd = {"err"}
        /\ crd.err = "none" => Len(crd.min_x) = RawCount /\ Len(crd.max_y) = RawCount
        /\ RawLen >= 24 => crd = ReadSoaArrays(ReservedCleared)

\* a file of two boxes cut inside its third array
C9_Witness ==
    /\ cpc = "done"
    /\ cfile.exists
    /\ RawLen = 24 + 16 + 3
    /\ crd.err = "Unexpected EOF reading SoA array"

\* the other failures and a success with a reserved field of 7
C9_ShortHeader == cpc = "done" /\ cfile.exists /\ RawLen = 23 /\ crd.err = "SoA file too small for header"
C9_BadMagic == cpc = "done" /\ crd.err = "Invalid SoA magic" /\ RawVersion = 1
C9_BadVersion == cpc = "done" /\ crd.err = "Unsupported SoA version" /\ RawVersion = 2
C9_ReservedIgnored ==
    cpc = "done" /\ crd.err = "none" /\ crd.n = 2 /\ FByte(cfile.data, 21) = 7

-----------------------------------------------------------------------------
(* aabb_io.write_boxes, the writer of the text dataset format.  gen.py      *)
(* imports and calls it; its code is not among the sources, so it is        *)
(* modelled from the format's description: the decimal box count on the     *)
(* first line, then one line "min_x min_y max_x max_y" per box.             *)

\* the decimal places written for a coordinate
DecimalPlaces == 6

\* the code of a character of a text dataset file
Ascii(c) ==
    IF c = " " THEN 32
    ELSE IF c = "-" THEN 45
    ELSE IF c = "." THEN 46
    ELSE 48 + (CHOOSE d \in 0..9 : Digit(d) = c)

NewLine == 10

\* the first k digits after the point of r / d, for 0 <= r < d
RECURSIVE FracDigits(_, _, _)
FracDigits(r, d, k) ==
    IF k = 0 THEN <<>>
    ELSE <<Digit((r * 10) \div d)>> \o FracDigits((r * 10) % d, d, k - 1)

\* a coordinate in decimal notation
FormatFloat(x) ==
    (IF x[1] < 0 THEN <<"-">> ELSE <<>>)
      \o Str(Abs(x[1]) \div x[2]) \o <<".">>
      \o FracDigits(Abs(x[1]) % x[2], x[2], DecimalPlaces)

\* the line of a box, without its terminator
BoxLine(b) ==
    FormatFloat(b[1]) \o <<" ">> \o FormatFloat(b[2]) \o <<" ">>
      \o FormatFloat(b[3]) \o <<" ">> \o FormatFloat(b[4])

TextLine(chars) == [k \in 1..Len(chars) |-> Ascii(chars[k])] \o <<NewLine>>

RECURSIVE TextLines(_)
TextLines(bs) ==
    IF bs = <<>> THEN <<>> ELSE TextLine(BoxLine(Head(bs))) \o TextLines(Tail(bs))

\* the bytes write_boxes(path, boxes) writes
write_boxes(bs) == TextLine(Str(Len(bs))) \o TextLines(bs)

\* main, lines 335-337: the boxes are stored in args.out + ".in"
GenWrite ==
    /\ gpc = "scaled"
    /\ gout' = File(Bytes(write_boxes(gboxes)))
    /\ gpc' = "done"
    /\ UNCHANGED <<args, gerr, centers, gr, gc, idx, gboxes>>
    /\ UNCHANGED notGen

-----------------------------------------------------------------------------
(* The generator on a set of configurations *)

Distributions == {"uniform", "clustered", "grid", "packed"}
SizeDists == {"uniform", "skewed"}

\* <<width, height, min_size, max_size>>
DefaultGeometry == <<Num(100), Num(100), Frac(1, 2), Num(5)>>
Geometries ==
    { DefaultGeometry,
      <<Num(4), Num(4), Num(4), Num(4)>>,              \* boxes as large as the world
      <<Num(8), Num(4), Num(1), Num(6)>>,              \* max_size is cut to 4
      <<Num(4), Num(8), Num(5), Num(6)>> }             \* both sizes are cut to 4

\* the values of --packed-overlap-mult: the default, and one that puts the
\* center of a packed box outside the world
OverlapMults == { Frac(3, 2), Num(3) }

\* The command lines of the model: every combination of the modes for one
\* box; for more boxes, the geometry with the clamped sizes and an occupancy
\* target, and the grids of up to MaxGridN boxes.  --packed-overlap-mult varies for one packed box; the other
\* options keep their defaults.
AllArgs ==
    { [n |-> n, width |-> g[1], height |-> g[2], min_size |-> g[3], max_size |-> g[4],
       distribution |-> d, size_dist |-> sd, big_fraction |-> Frac(1, 20),
       big_size_mult |-> Num(3), occupancy |-> o, packed_overlap_mult |-> m] :
      n \in 1..(MaxGenN + MaxGridN), g \in Geometries, d \in Distributions, sd \in SizeDists,
      o \in {"none", "non-positive", "positive"}, m \in OverlapMults }

GenArgs ==
    { a \in AllArgs :
        /\ a.packed_overlap_mult # Frac(3, 2) => a.n = 1 /\ a.distribution = "packed"
        /\ \/ a.n = 1
           \/ a.distribution = "grid" /\ a.n <= MaxGridN /\ a.occupancy # "non-positive"
           \/ /\ a.n <= MaxGenN
              /\ a.width = Num(8)
              /\ a.occupancy = "positive"
              /\ a.distribution = "clustered" => a.n <= MaxClusteredN }

\* arguments the validation rejects
BadArgs(a) ==
    { [a EXCEPT !.n = 0], [a EXCEPT !.width = Num(0)], [a EXCEPT !.height = Num(0 - 1)],
      [a EXCEPT !.min_size = Num(0)], [a EXCEPT !.max_size = Num(0)],
      [a EXCEPT !.min_size = Num(6), !.max_size = Num(5)] }

GenInit ==
    /\ args \in GenArgs \cup UNION { BadArgs(a) : a \in { b \in GenArgs : b.n = 1 /\ b.occupancy = "none"
                                                                       /\ b.width = DefaultGeometry[1] } }
    /\ gpc = "start"
    /\ gerr = "none"
    /\ centers = <<>>
    /\ gr = 0
    /\ gc = 0
    /\ idx = 0
    /\ gboxes = <<>>
    /\ gout = NoFile
    /\ OracleIdle
    /\ JudgeIdle
    /\ CodecIdle

GenNext ==
    \/ GenValidate
    \/ GenUniform
    \/ GenCenters
    \/ GenClustered
    \/ GenGrid
    \/ GenPacked
    \/ GenScale
    \/ GenWrite

GenSpec == GenInit /\ [][GenNext]_vars

-----------------------------------------------------------------------------
(* Properties of the generator *)

InWorld(b) ==
    /\ RLe(Num(0), b[1]) /\ RLe(b[1], b[3]) /\ RLe(b[3], args.width)
    /\ RLe(Num(0), b[2]) /\ RLe(b[2], b[4]) /\ RLe(b[4], args.height)

\* C10: every box of every spatial mode and size mode, before and after the
\* occupancy rescaling, lies in the world: 0 <= min_x <= max_x <= width and
\* 0 <= min_y <= max_y <= height.
C10_BoundsInvariant == \A k \in 1..Len(gboxes) : InWorld(gboxes[k])

\* The same for the three modes other than packed.
C10_UnpackedInWorld ==
    args.distribution # "packed" => \A k \in 1..Len(gboxes) : InWorld(gboxes[k])

\* A packed box that leaves the world before any rescaling.
C10_PackedOutside ==
    /\ args.distribution = "packed"
    /\ gpc = "packed"
    /\ \E k \in 1..Len(gboxes) : ~InWorld(gboxes[k])

-----------------------------------------------------------------------------
(* The judge on pair lists of any form: header rows, blank lines, lines of  *)
(* one or three tokens, whitespace-separated lines                          *)

HeaderLine == <<"i", "d", "1", ",", "i", "d", "2">>
UpperHeaderLine == <<"I", "D", "1", ",", " ", "I", "d", "2">>
SpaceLine == <<"1", " ", "2">>
OneTokenLine == <<"1">>
ThreeTokenLine == <<"1", ",", "2", ",", "3">>
BlankLine == <<>>
HalfHeaderLine == <<"i", "d", "1", ",", "2">>

\* the lines of the expected file
FormatLines ==
    { PairLine(<<"1">>, <<"2">>), HeaderLine, UpperHeaderLine, SpaceLine,
      OneTokenLine, ThreeTokenLine, BlankLine, HalfHeaderLine }

\* the lines of the actual file
PlainLines == { PairLine(<<"1">>, <<"2">>), HeaderLine, SpaceLine }

JudgeFormatInit ==
    /\ expFile \in { File(l) : l \in SeqsUpTo(FormatLines, MaxLines) }
    /\ actFile \in { File(l) : l \in SeqsUpTo(PlainLines, MaxLines) }
    /\ jpc = "start"
    /\ jreads = <<>>
    /\ exp = EmptyCounter
    /\ act = EmptyCounter
    /\ jout = NoOutput
    /\ jexit = Running
    /\ OracleIdle
    /\ CodecIdle
    /\ GenIdle

JudgeFormatSpec == JudgeFormatInit /\ [][JudgeNext]_vars

-----------------------------------------------------------------------------
(* Properties of the judge's reading *)

IsSeparator(c) == c = " " \/ c = ","

\* the tokens of a line: its maximal runs of characters other than blanks
\* and commas
RECURSIVE Fields(_)
Fields(line) ==
    IF line = <<>> THEN <<>>
    ELSE IF IsSeparator(Head(line)) THEN Fields(Tail(line))
    ELSE LET n_ == CHOOSE k \in 1..Len(line) :
                       /\ \A m \in 1..k : ~IsSeparator(line[m])
                       /\ k = Len(line) \/ IsSeparator(line[k + 1])
         IN  <<SubSeq(line, 1, n_)>> \o Fields(SubSeq(line, n_ + 1, Len(line)))

\* a non-empty line that does not hold exactly two tokens
Malformed(line) == line # <<>> /\ Len(Fields(line)) # 2

\* a line of two tokens of which neither starts like a header cell
TwoIds(line) ==
    /\ Len(Fields(line)) = 2
    /\ \A k \in 1..2 : ~StartsWith(Lower(Fields(line)[k]), <<"i", "d">>)

\* the unordered pair a two-token line stands for, as the sorted tuple
PairOf(line) == SortedPair(Fields(line)[1], Fields(line)[2])

ExpectedRead == jpc \in {"readActual", "compare", "done"} /\ expFile.exists /\ actFile.exists

\* C11: a non-empty line of other than two tokens is a format error, so a
\* source holding one never yields a pair multiset and a verdict; and a source
\* of two-token lines yields the pairs of its lines whether the two tokens
\* are separated by a comma or by blanks.
C11_PairFormat ==
    /\ (jpc = "done" /\ expFile.exists /\ actFile.exists
          /\ \E k \in 1..Len(expFile.data) : Malformed(expFile.data[k]))
       => jexit \notin {Exited(0), Exited(2)}
    /\ (ExpectedRead /\ \A k \in 1..Len(expFile.data) : TwoIds(expFile.data[k]))
       => exp = Counter([k \in 1..Len(expFile.data) |-> PairOf(expFile.data[k])])

\* the line "1" is read as the pair ("", "1") and judged
C11_OneTokenAccepted ==
    /\ jpc = "done"
    /\ expFile = File(<<OneTokenLine>>)
    /\ Count(exp, <<<<>>, <<"1">>>>) = 1
    /\ jexit \in {Exited(0), Exited(2)}

\* the line "1 2" is read as the pair ("", "1 2"), not as ("1", "2")
C11_SpaceLineOneCell ==
    /\ jpc = "done"
    /\ expFile = File(<<SpaceLine>>)
    /\ actFile = File(<<PairLine(<<"1">>, <<"2">>)>>)
    /\ Count(exp, <<<<>>, SpaceLine>>) = 1
    /\ jexit = Exited(2)

-----------------------------------------------------------------------------
(* Properties of the generator's validation *)

\* the parameters of a configuration that break a constraint
Offending(a) ==
    (IF a.n <= 0 THEN {"--n"} ELSE {})
      \cup (IF RLe(a.width, Num(0)) THEN {"--width"} ELSE {})
      \cup (IF RLe(a.height, Num(0)) THEN {"--height"} ELSE {})
      \cup (IF RLe(a.min_size, Num(0)) THEN {"--min-size"} ELSE {})
      \cup (IF RLe(a.max_size, Num(0)) THEN {"--max-size"} ELSE {})
      \cup (IF RLt(a.max_size, a.min_size) THEN {"--min-size", "--max-size"} ELSE {})

\* the message is a validation error about the parameter p
Names(msg, p) ==
    msg \in { p \o " must be > 0", p \o " must be positive",
              p \o " must be <= --max-size", "--min-size must be <= " \o p }

\* the sizes after the clamp to the world
ClampedTo(a, b) ==
    /\ b.max_size = RMin(a.max_size, RMin(a.width, a.height))
    /\ b.min_size = RMin(a.min_size, b.max_size)
    /\ [b EXCEPT !.max_size = a.max_size, !.min_size = a.min_size] = a

\* C12: a configuration that breaks a constraint ends in a validation error
\* naming an offending parameter, with no box sampled and no file written,
\* and nothing runs after it; any other configuration raises nothing and has
\* max_size cut to min(width, height) and min_size to the new max_size.
C12_FailFast ==
    /\ [](gpc = "raised" =>
            /\ \E p \in Offending(args) : Names(gerr, p)
            /\ gboxes = <<>>
            /\ gout = NoFile)
    /\ [][/\ gpc # "raised"
          /\ gpc = "start" =>
                IF Offending(args) # {}
                THEN gpc' = "raised" /\ args' = args
                ELSE gpc' # "raised" /\ gerr' = "none" /\ ClampedTo(args, args')]_vars

\* min_size 6 above max_size 5: the error names them, nothing is generated
C12_Witness ==
    /\ gpc = "raised"
    /\ args.min_size = Num(6) /\ args.max_size = Num(5)
    /\ gerr = "--min-size must be <= --max-size"
    /\ gboxes = <<>>
    /\ gout = NoFile

\* max_size 6 and min_size 5 in a world 4 wide: both are cut to 4, no error
C12_Clamped ==
    /\ gpc = "done"
    /\ args.width = Num(4) /\ args.height = Num(8)
    /\ args.min_size = Num(4) /\ args.max_size = Num(4)
    /\ gerr = "none"
    /\ gout # NoFile

-----------------------------------------------------------------------------
(* Properties of the judge's header handling *)

\* the cell starts with "id", whatever the case, blanks around it set aside
IdCell(cell) ==
    LET c == Strip(cell)
    IN  Len(c) >= 2 /\ c[1] \in {"i", "I"} /\ c[2] \in {"d", "D"}

\* both of the first two comma-separated cells of the line start with "id"
HeaderLike(line) ==
    LET cells == CsvCells(line)
    IN  Len(cells) >= 2 /\ IdCell(cells[1]) /\ IdCell(cells[2])

\* the lines that are left when a header in first position is taken away
Body(lines) ==
    IF lines # <<>> /\ HeaderLike(lines[1]) THEN Tail(lines) ELSE lines

RECURSIVE SumOver(_, _)
SumOver(c, keys) ==
    IF keys = {} THEN 0
    ELSE LET x == CHOOSE y \in keys : TRUE IN c[x] + SumOver(c, keys \ {x})

\* the number of pairs a Counter holds, with their multiplicity
Total(c) == SumOver(c, DOMAIN c)

\* the lines that hold a character other than a blank or a comma
NonBlank(lines) == { k \in 1..Len(lines) : Fields(lines[k]) # <<>> }

\* the pair of the first two trimmed cells of a line, as the sorted tuple
CellPair(line) == SortedPair(Strip(CsvCells(line)[1]), Strip(CsvCells(line)[2]))

\* the listing has no header: it is empty or its first row is not header-like
Headerless(lines) == lines = <<>> \/ ~HeaderLike(lines[1])

C13_LaterHeaderKept ==
    /\ jpc = "done"
    /\ expFile.data = <<PairLine(<<"1">>, <<"2">>), HeaderLine>>
    /\ actFile.data = <<PairLine(<<"1">>, <<"2">>)>>
    /\ Count(exp, <<<<"i", "d", "1">>, <<"i", "d", "2">>>>) = 1
    /\ jexit = Exited(2)

\* the header in capitals with a blank after the comma is skipped too
C13_UpperHeaderSkipped ==
    /\ jpc = "done"
    /\ expFile.data = <<UpperHeaderLine, PairLine(<<"1">>, <<"2">>)>>
    /\ actFile.data = <<PairLine(<<"1">>, <<"2">>)>>
    /\ jexit = Exited(0)

-----------------------------------------------------------------------------
(* Properties of the occupancy rescaling *)

CenterX(b) == RMul(RAdd(b[1], b[3]), Frac(1, 2))
CenterY(b) == RMul(RAdd(b[2], b[4]), Frac(1, 2))
HalfW(b) == RMul(RSub(b[3], b[1]), Frac(1, 2))
HalfH(b) == RMul(RSub(b[4], b[2]), Frac(1, 2))

\* from the coordinate c to the nearer of the world's edges 0 and extent,
\* which is the distance to it when c lies in the world
ToNearestEdge(c, extent) == RMin(c, RSub(extent, c))

CenterInWorld(b) ==
    /\ RLe(Num(0), CenterX(b)) /\ RLe(CenterX(b), args.width)
    /\ RLe(Num(0), CenterY(b)) /\ RLe(CenterY(b), args.height)

\* box c is box b rescaled by s as the claim has it
RescaledAs(b, c, s) ==
    /\ CenterX(c) = CenterX(b)
    /\ CenterY(c) = CenterY(b)
    /\ HalfW(c) = RMin(RMul(s, HalfW(b)), ToNearestEdge(CenterX(b), args.width))
    /\ HalfH(c) = RMin(RMul(s, HalfH(b)), ToNearestEdge(CenterY(b), args.height))
    /\ CenterInWorld(b) => InWorld(c)

C14_Shrunk ==
    /\ gpc = "scaled"
    /\ args.distribution = "uniform" /\ args.occupancy = "positive"
    /\ Len(gboxes) = 2
    /\ \A k \in 1..2 : HalfW(gboxes[k]) = Frac(1, 4)

\* a packed box whose center is outside the world: after the rescaling its
\* max_x is below its min_x
C14_CenterOutside ==
    /\ gpc = "scaled"
    /\ args.distribution = "packed" /\ args.occupancy = "positive"
    /\ \E k \in 1..Len(gboxes) : RLt(gboxes[k][3], gboxes[k][1])

-----------------------------------------------------------------------------
(* Properties of the grid mode *)

\* the oracle's test on two boxes with fractional coordinates
Meet(a, b) ==
    ~(RLt(a[3], b[1]) \/ RLt(b[3], a[1]) \/ RLt(a[4], b[2]) \/ RLt(b[4], a[2]))

\* box b is the box of cell (r, c) of a grid of cols by rows cells
InCell(b, r, c, cols, rows) ==
    LET cell_w == RDiv(args.width, Num(cols))
        cell_h == RDiv(args.height, Num(rows))
    IN  /\ CenterX(b) = RMul(RAdd(Num(c), Frac(1, 2)), cell_w)
        /\ CenterY(b) = RMul(RAdd(Num(r), Frac(1, 2)), cell_h)
        /\ RLt(Num(0), HalfW(b)) /\ RLe(HalfW(b), RMul(Frac(45, 100), cell_w))
        /\ RLt(Num(0), HalfH(b)) /\ RLe(HalfH(b), RMul(Frac(45, 100), cell_h))
        /\ RLt(RMul(Num(c), cell_w), b[1]) /\ RLt(b[3], RMul(Num(c + 1), cell_w))
        /\ RLt(RMul(Num(r), cell_h), b[2]) /\ RLt(b[4], RMul(Num(r + 1), cell_h))

\* the grid of the claim: the least cols with cols^2 >= n * width / height,
\* and the least rows with rows * cols >= n
ClaimedCols == CHOOSE c \in 1..(MaxGenN + MaxGridN + 2) :
                  /\ RLe(RMul(Num(args.n), RDiv(args.width, args.height)), Num(c * c))
                  /\ c > 1 => RLt(Num((c - 1) * (c - 1)),
                                  RMul(Num(args.n), RDiv(args.width, args.height)))
ClaimedRows == CHOOSE r \in 1..args.n :
                  r * ClaimedCols >= args.n /\ (r - 1) * ClaimedCols < args.n

\* C15: grid mode returns exactly n boxes, rows * cols >= n, the k-th box
\* (from 0) centered in cell (k div cols, k mod cols) with positive
\* half-extents of at most 45% of the cell, strictly inside the cell, and no
\* two boxes of the un-rescaled list intersect under the oracle's test.
C15_Grid ==
    (args.distribution = "grid" /\ gpc \in {"grid", "generated"}) =>
        /\ ClaimedRows * ClaimedCols >= args.n
        /\ Len(gboxes) <= args.n
        /\ gpc = "generated" => Len(gboxes) = args.n
        /\ \A k \in 1..Len(gboxes) :
              InCell(gboxes[k], (k - 1) \div ClaimedCols, (k - 1) % ClaimedCols,
                     ClaimedCols, ClaimedRows)
        /\ \A j, k \in 1..Len(gboxes) : j # k => ~Meet(gboxes[j], gboxes[k])

\* three boxes on a grid of two by two cells: the last row is left after
\* its first cell
C15_Witness ==
    /\ args.distribution = "grid" /\ gpc = "generated"
    /\ args.n = 3 /\ args.width = Num(4) /\ args.height = Num(4)
    /\ ClaimedCols = 2 /\ ClaimedRows = 2
    /\ Len(gboxes) = 3
    /\ CenterX(gboxes[3]) = Num(1) /\ CenterY(gboxes[3]) = Num(3)

-----------------------------------------------------------------------------
(* The pipeline: the generator, then the oracle on a dataset file *)

\* the command lines of the pipeline's generator: one box, every mode
PipelineArgs ==
    { a \in GenArgs : a.n = 1 /\ a.width = Num(4) /\ a.height = Num(4)
                        /\ a.packed_overlap_mult = Frac(3, 2) }

\* a file in the SoA binary layout
BinaryFile == File(Bytes(SoaBytes(<< <<0, 0, 2, 2>>, <<1, 1, 3, 3>> >>, 4, 4)))

PipelineInit ==
    /\ args \in PipelineArgs
    /\ gpc = "start"
    /\ gerr = "none"
    /\ centers = <<>>
    /\ gr = 0
    /\ gc = 0
    /\ idx = 0
    /\ gboxes = <<>>
    /\ gout = NoFile
    /\ OracleIdle
    /\ JudgeIdle
    /\ CodecIdle

\* ground_truth.py --in <path>: the oracle is started on the generator's
\* output file, or on a binary file
RunOracle ==
    /\ gpc = "done"
    /\ opc = "idle"
    /\ file' \in {gout, BinaryFile}
    /\ force' \in BOOLEAN
    /\ opc' = "start"
    /\ UNCHANGED <<ds, est, oi, oj, pairs, tests, outcsv, oexit>>
    /\ UNCHANGED notOracle

PipelineNext ==
    \/ GenValidate
    \/ GenUniform
    \/ GenCenters
    \/ GenClustered
    \/ GenGrid
    \/ GenPacked
    \/ GenScale
    \/ GenWrite
    \/ RunOracle
    \/ OracleLoad
    \/ OracleGuard
    \/ BruteOuter
    \/ BruteInner
    \/ OracleWrite

PipelineSpec == PipelineInit /\ [][PipelineNext]_vars

-----------------------------------------------------------------------------
(* Properties of the pipeline *)

\* the oracle has read the file the generator wrote
ReadGenerated == opc \notin {"idle", "start"} /\ file = gout

\* the float32 v is the coordinate x of the generator, to float32 precision
\* (exactly, for the whole numbers the model's float32 values are)
SameCoordinate(v, x) == Num(v) = x

\* C16: the oracle run on the file the generator wrote decodes the
\* generator's N boxes in their order, and does not end in a decode error.
C16_FormatsAgree ==
    ReadGenerated =>
        /\ ds.err = "none"
        /\ opc # "raised"
        /\ ds.n = Len(gboxes)
        /\ \A k \in 1..Len(gboxes) :
              /\ SameCoordinate(Loaded.min_x[k], gboxes[k][1])
              /\ SameCoordinate(Loaded.min_y[k], gboxes[k][2])
              /\ SameCoordinate(Loaded.max_x[k], gboxes[k][3])
              /\ SameCoordinate(Loaded.max_y[k], gboxes[k][4])

\* the oracle ends on the generator's text file with "Invalid SoA magic"
C16_TextRejected ==
    /\ ReadGenerated
    /\ opc = "raised"
    /\ ds.err = "Invalid SoA magic"
    /\ oexit = Exited(1)

\* the oracle runs to its end on the binary file
C16_BinaryAccepted ==
    /\ file = BinaryFile
    /\ opc = "done"
    /\ ds.err = "none"

====
